---- MODULE Spec2Model ----
(***************************************************************************)
(* A model of the seccomp wrapper crate (src/src/lib.rs): the Compare      *)
(* builder, Rule, and the Context that owns a libseccomp filter handle.    *)
(* The libseccomp facility (seccomp_init, seccomp_rule_add_array,          *)
(* seccomp_load, seccomp_release) is an external collaborator; it is       *)
(* modelled by a stand-in whose return values are nondeterministic.        *)
(***************************************************************************)
EXTENDS Integers, Sequences, FiniteSets, TLC

VARIABLES
    compare,    \* the Compare builder value the program holds, or NoCompare
    given,      \* history: the last value supplied to each setter of the builder, and
                \* the setter called last
    built,      \* history: outcome of the last build() and what it was built from
    rule,       \* the Rule value the program holds, or NoRule
    appended,   \* history: comparisons handed to Rule::new / add_comparison, in order
    ctxs,       \* the Context values created so far: Seq of [int |-> handle]
    owner,      \* per Context: "live" (owned by the program) or "dropped"
    obs,        \* history per Context: default action, rules accepted and rejected,
                \* load outcomes
    fac,        \* stand-in facility: per handle its filter object
    filters,    \* stand-in kernel: the policies activated for the process
    last,       \* history: the last wrapper operation, its result and facility calls
    nops        \* number of Context operations performed

buildVars == <<compare, given, built, rule, appended>>
ctxVars == <<ctxs, owner, obs, fac, filters, last, nops>>
vars == <<compare, given, built, rule, appended, ctxs, owner, obs, fac, filters, last, nops>>

-----------------------------------------------------------------------------
(* Bounds of the model. *)

\* total number of Context operations (create, add_rule, load, drop) in a run
MaxOps == 4
\* number of add_comparison calls on one Rule
MaxAppend == 2

-----------------------------------------------------------------------------
(* Option<T> *)

None == [some |-> FALSE]
Some(x) == [some |-> TRUE, val |-> x]
UnwrapOr(o, d) == IF o.some THEN o.val ELSE d

-----------------------------------------------------------------------------
(* Integer conversions.  Values wider than 31 bits are kept as 16-bit      *)
(* limbs, most significant first, so that `as` casts keep their width.     *)

Limb == 65536

\* a usize (64 bit) from its four 16-bit limbs
Usize(l3, l2, l1, l0) == <<l3, l2, l1, l0>>

\* `rule.syscall_nr as i32`: the low 32 bits, read as two's complement
UsizeAsI32(n) ==
    IF n[3] < Limb \div 2 THEN n[3] * Limb + n[4]
    ELSE (n[3] - Limb) * Limb + n[4]

\* the mathematical value of a usize equals the non-negative i32 value k
UsizeEquals(n, k) == n[1] = 0 /\ n[2] = 0 /\ n[3] < Limb \div 2 /\ n[3] * Limb + n[4] = k

\* `x as u32` for an i32 x: two 16-bit limbs of the two's complement pattern
I32AsU32(x) == <<(x \div Limb) % Limb, x % Limb>>

\* `rule.comparators.len() as u32` for a length n: the low 32 bits
LenAsU32(n) == ((n \div Limb) % Limb) * Limb + (n % Limb)

-----------------------------------------------------------------------------
(* Op and Action and their translation tables. *)

Ops == {"Ne", "Lt", "Le", "Eq", "Ge", "Gt", "MaskedEq"}

OpInto(op) ==
    CASE op = "Ne" -> "SCMP_CMP_NE"
      [] op = "Lt" -> "SCMP_CMP_LT"
      [] op = "Le" -> "SCMP_CMP_LE"
      [] op = "Eq" -> "SCMP_CMP_EQ"
      [] op = "Ge" -> "SCMP_CMP_GE"
      [] op = "Gt" -> "SCMP_CMP_GT"
      [] op = "MaskedEq" -> "SCMP_CMP_MASKED_EQ"

Allow == [tag |-> "Allow"]
Kill == [tag |-> "Kill"]
Trap == [tag |-> "Trap"]
Errno(x) == [tag |-> "Errno", x |-> x]
Trace(x) == [tag |-> "Trace", x |-> x]

\* the facility's action code: the SCMP_ACT_* constant or constructor applied
ActionInto(a) ==
    CASE a.tag = "Allow" -> [code |-> "SCMP_ACT_ALLOW"]
      [] a.tag = "Kill" -> [code |-> "SCMP_ACT_KILL"]
      [] a.tag = "Trap" -> [code |-> "SCMP_ACT_TRAP"]
      [] a.tag = "Errno" -> [code |-> "SCMP_ACT_ERRNO", arg |-> I32AsU32(a.x)]
      [] a.tag = "Trace" -> [code |-> "SCMP_ACT_TRACE", arg |-> a.x]

-----------------------------------------------------------------------------
(* Compare: the comparison builder. *)

CompareArg(arg_num) == [arg |-> arg_num, op |-> None, datum_a |-> None, datum_b |-> None]

Using(self, op) == [self EXCEPT !.op = Some(op)]

WithSetsBothData(self, datum) ==
    [self EXCEPT !.datum_a = Some(datum), !.datum_b = Some(datum)]

With(self, datum) == [self EXCEPT !.datum_a = Some(datum)]

And(self, datum) == [self EXCEPT !.datum_b = Some(datum)]

BuildDefaultsToPrimary(self) ==
    IF self.op.some /\ self.datum_a.some
    THEN Some([arg |-> self.arg,
               op |-> OpInto(self.op.val),
               datum_a |-> self.datum_a.val,
               datum_b |-> UnwrapOr(self.datum_b, self.datum_a.val)])
    ELSE None

BuildNeedsOnlyOp(self) ==
    IF self.op.some
    THEN Some([arg |-> self.arg,
               op |-> OpInto(self.op.val),
               datum_a |-> UnwrapOr(self.datum_a, 0),
               datum_b |-> UnwrapOr(self.datum_b, 0)])
    ELSE None

Build(self) ==
    IF self.op.some /\ self.datum_a.some
    THEN Some([arg |-> self.arg,
               op |-> OpInto(self.op.val),
               datum_a |-> self.datum_a.val,
               datum_b |-> UnwrapOr(self.datum_b, 0)])
    ELSE None

-----------------------------------------------------------------------------
(* Rule *)

RuleNew(syscall_nr, cmp, action) ==
    [action |-> action, syscall_nr |-> syscall_nr, comparators |-> <<cmp>>]

AddComparisonInFront(self, cmp) == [self EXCEPT !.comparators = <<cmp>> \o @]

AddComparison(self, cmp) == [self EXCEPT !.comparators = Append(@, cmp)]

-----------------------------------------------------------------------------
(* The values a program supplies. *)

EPERM == 1

ArgNums == {0, 1}
BuildOps == {"Eq", "Ge", "MaskedEq"}
Datums == {15, 255, 1000}
RuleActions == {Errno(EPERM), Kill}
DefActions == {Allow, Kill}

\* 105 (setuid on x86_64), 2^32 + 105 and 2^31 + 105 as usize
SyscallNrs == {Usize(0, 0, 0, 105), Usize(0, 1, 0, 105), Usize(0, 0, 32768, 105)}

\* what (arg, op, a, b) describe: Compare::arg(arg) with .using / .with / .and
\* applied for the parts that are supplied
Draft(g) ==
    LET c0 == CompareArg(g.arg.val)
        c1 == IF g.op.some THEN Using(c0, g.op.val) ELSE c0
        c2 == IF g.a.some THEN With(c1, g.a.val) ELSE c1
    IN IF g.b.some THEN And(c2, g.b.val) ELSE c2

Supplied(arg, op, a, b) == [arg |-> Some(arg), op |-> op, a |-> a, b |-> b]

\* the comparisons the scenarios use: arg 0 == 1000; arg 0 masked-equal 0xFF with
\* no second datum; arg 1 masked-equal 15 and 255
CmpInputs ==
    { Supplied(0, Some("Eq"), Some(1000), None),
      Supplied(0, Some("MaskedEq"), Some(255), None),
      Supplied(1, Some("MaskedEq"), Some(15), Some(255)) }

NoCompare == [held |-> FALSE]
NoRule == [held |-> FALSE]
Held(x) == [held |-> TRUE, val |-> x]
NotGiven == [arg |-> None, op |-> None, a |-> None, b |-> None, setter |-> "none"]
NotBuilt == [done |-> FALSE]

-----------------------------------------------------------------------------
(* Initial state. *)

NoOp == [op |-> "none"]

InitBuild ==
    /\ compare = NoCompare
    /\ given = NotGiven
    /\ built = NotBuilt
    /\ rule = NoRule
    /\ appended = <<>>

InitCtx ==
    /\ ctxs = <<>>
    /\ owner = <<>>
    /\ obs = <<>>
    /\ fac = <<>>
    /\ filters = {}
    /\ last = NoOp
    /\ nops = 0

Init == InitBuild /\ InitCtx

-----------------------------------------------------------------------------
(* The builder, step by step. *)

DoArg(arg_num) ==
    /\ compare' = Held(CompareArg(arg_num))
    /\ given' = [NotGiven EXCEPT !.arg = Some(arg_num), !.setter = "arg"]
    /\ UNCHANGED <<built, rule, appended>>
    /\ UNCHANGED ctxVars

DoUsing(op) ==
    /\ compare.held
    /\ compare' = Held(Using(compare.val, op))
    /\ given' = [given EXCEPT !.op = Some(op), !.setter = "using"]
    /\ UNCHANGED <<built, rule, appended>>
    /\ UNCHANGED ctxVars

DoWith(datum) ==
    /\ compare.held
    /\ compare' = Held(With(compare.val, datum))
    /\ given' = [given EXCEPT !.a = Some(datum), !.setter = "with"]
    /\ UNCHANGED <<built, rule, appended>>
    /\ UNCHANGED ctxVars

DoAnd(datum) ==
    /\ compare.held
    /\ compare' = Held(And(compare.val, datum))
    /\ given' = [given EXCEPT !.b = Some(datum), !.setter = "and"]
    /\ UNCHANGED <<built, rule, appended>>
    /\ UNCHANGED ctxVars

\* build(self) consumes the builder
DoBuild ==
    /\ compare.held
    /\ built' = [done |-> TRUE, from |-> given, val |-> Build(compare.val)]
    /\ compare' = NoCompare
    /\ given' = NotGiven
    /\ UNCHANGED <<rule, appended>>
    /\ UNCHANGED ctxVars

NextBuild ==
    \/ \E i \in ArgNums : DoArg(i)
    \/ \E o \in BuildOps : DoUsing(o)
    \/ \E d \in Datums : DoWith(d)
    \/ \E d \in Datums : DoAnd(d)
    \/ DoBuild

SpecBuild == Init /\ [][NextBuild]_vars

-----------------------------------------------------------------------------
(* Rule::new and Rule::add_comparison, on comparisons that build() yielded. *)

BuiltCmps == {Build(Draft(g)).val : g \in CmpInputs}

DoRuleNew(syscall_nr, cmp, action) ==
    /\ rule' = Held(RuleNew(syscall_nr, cmp, action))
    /\ appended' = <<cmp>>
    /\ UNCHANGED <<compare, given, built>>
    /\ UNCHANGED ctxVars

DoAddComparison(cmp) ==
    /\ rule.held
    /\ Len(appended) <= MaxAppend
    /\ rule' = Held(AddComparison(rule.val, cmp))
    /\ appended' = Append(appended, cmp)
    /\ UNCHANGED <<compare, given, built>>
    /\ UNCHANGED ctxVars

NextRule ==
    \/ \E n \in SyscallNrs, c \in BuiltCmps, a \in RuleActions : DoRuleNew(n, c, a)
    \/ \E c \in BuiltCmps : DoAddComparison(c)

SpecRule == Init /\ [][NextRule]_vars

-----------------------------------------------------------------------------
(* The facility (libseccomp), as a stand-in.  A filter object per handle:  *)
(* its default action code, the rules added to it, how often it has been   *)
(* released, and how many calls reached it after its release.              *)

NULL == 0
EINVAL == 22

\* what seccomp_rule_add_array / seccomp_load may return
FacRets == {0, -EINVAL, 1}

Touch(f, h) == [f EXCEPT ![h].late = @ + (IF f[h].released > 0 THEN 1 ELSE 0)]

\* init(default action code) -> handle or null
FacInit(f, def, ret) ==
    IF ret = NULL THEN f
    ELSE Append(f, [def |-> def, rules |-> <<>>, released |-> 0, late |-> 0])

\* rule_add(handle, action, syscall, count, array) -> 0 and the rule is added, or
\* nonzero and the filter object is as before
FacRuleAdd(f, h, action, syscall, arg_cnt, arg_array, ret) ==
    IF ret = 0
    THEN [Touch(f, h) EXCEPT ![h].rules =
             Append(@, [action |-> action, syscall |-> syscall,
                        cmps |-> SubSeq(arg_array, 1, arg_cnt)])]
    ELSE Touch(f, h)

\* load(handle) -> 0 and the policy is active for the process, or nonzero
FacLoad(flt, f, h, ret) ==
    IF ret = 0
    THEN flt \cup {[handle |-> h, def |-> f[h].def, rules |-> f[h].rules]}
    ELSE flt

\* release(handle)
FacRelease(f, h) == [Touch(f, h) EXCEPT ![h].released = @ + 1]

-----------------------------------------------------------------------------
(* Context *)

Ok == [ok |-> TRUE]
Err(msg) == [ok |-> FALSE, msg |-> msg]

\* a message: the literal text and the formatted arguments that follow it
Format(text, args) == [text |-> text, args |-> args]

\* `{:?}` of a Rule (derive(Debug)): the type name and every field with its value
DebugRule(r) ==
    [name |-> "Rule",
     fields |-> <<[name |-> "action", val |-> r.action],
                  [name |-> "syscall_nr", val |-> r.syscall_nr],
                  [name |-> "comparators", val |-> r.comparators]>>]

NoArg == [tag |-> "none"]

DefaultResultUnchecked(filter_ctx) == Ok

\* Context::default: the null check on the handle seccomp_init returned
DefaultResult(filter_ctx) ==
    IF filter_ctx = NULL THEN Err(Format("initialization failed", <<>>)) ELSE Ok

ContextDefault(def_action, filter_ctx) ==
    /\ nops < MaxOps
    /\ LET code == ActionInto(def_action)
           result == DefaultResult(filter_ctx)
       IN /\ fac' = FacInit(fac, code, filter_ctx)
          /\ IF result.ok
             THEN /\ ctxs' = Append(ctxs, [int |-> filter_ctx])
                  /\ owner' = Append(owner, "live")
                  /\ obs' = Append(obs, [def |-> def_action, added |-> <<>>, rejected |-> 0,
                                         loadok |-> FALSE, loadfail |-> FALSE])
             ELSE UNCHANGED <<ctxs, owner, obs>>
          /\ last' = [op |-> "default",
                      ctx |-> IF result.ok THEN Len(ctxs) + 1 ELSE 0,
                      res |-> result,
                      calls |-> <<[fn |-> "seccomp_init", def |-> code, ret |-> filter_ctx]>>,
                      loaded_before |-> FALSE,
                      arg |-> def_action]
    /\ nops' = nops + 1
    /\ UNCHANGED filters
    /\ UNCHANGED buildVars

AddRuleResultNegativeOnly(r, res) ==
    IF res < 0 THEN Err(Format("failed to add rule ", <<DebugRule(r)>>)) ELSE Ok

AddRuleResultInverted(r, res) ==
    IF res = 0 THEN Err(Format("failed to add rule ", <<DebugRule(r)>>)) ELSE Ok

AddRuleResultWithoutRule(r, res) ==
    IF res # 0 THEN Err(Format("failed to add rule", <<>>)) ELSE Ok

\* Context::add_rule: the check of seccomp_rule_add_array's return value
AddRuleResult(r, res) ==
    IF res # 0 THEN Err(Format("failed to add rule ", <<DebugRule(r)>>)) ELSE Ok

AddRuleRefusesAfterLoad(c, r, res) ==
    /\ nops < MaxOps
    /\ owner[c] = "live"
    /\ LET h == ctxs[c].int
           call == [fn |-> "seccomp_rule_add_array",
                    handle |-> h,
                    action |-> ActionInto(r.action),
                    syscall |-> UsizeAsI32(r.syscall_nr),
                    arg_cnt |-> LenAsU32(Len(r.comparators)),
                    arg_array |-> r.comparators,
                    ret |-> res]
           refused == obs[c].loadok
           result == IF refused THEN Err(Format("filter already loaded", <<>>)) ELSE AddRuleResult(r, res)
       IN /\ fac' = IF refused THEN fac
                    ELSE FacRuleAdd(fac, h, call.action, call.syscall, call.arg_cnt,
                                    call.arg_array, res)
          /\ obs' = IF result.ok THEN [obs EXCEPT ![c].added = Append(@, r)]
                                 ELSE [obs EXCEPT ![c].rejected = @ + 1]
          /\ last' = [op |-> "add_rule", ctx |-> c, res |-> result,
                      calls |-> IF refused THEN <<>> ELSE <<call>>,
                      loaded_before |-> obs[c].loadok, arg |-> r]
    /\ nops' = nops + 1
    /\ UNCHANGED <<ctxs, owner, filters>>
    /\ UNCHANGED buildVars

AddRule(c, r, res) ==
    /\ nops < MaxOps
    /\ owner[c] = "live"
    /\ LET h == ctxs[c].int
           call == [fn |-> "seccomp_rule_add_array",
                    handle |-> h,
                    action |-> ActionInto(r.action),
                    syscall |-> UsizeAsI32(r.syscall_nr),
                    arg_cnt |-> LenAsU32(Len(r.comparators)),
                    arg_array |-> r.comparators,
                    ret |-> res]
           result == AddRuleResult(r, res)
       IN /\ fac' = FacRuleAdd(fac, h, call.action, call.syscall, call.arg_cnt,
                               call.arg_array, res)
          /\ obs' = IF result.ok THEN [obs EXCEPT ![c].added = Append(@, r)]
                                 ELSE [obs EXCEPT ![c].rejected = @ + 1]
          /\ last' = [op |-> "add_rule", ctx |-> c, res |-> result, calls |-> <<call>>,
                      loaded_before |-> obs[c].loadok, arg |-> r]
    /\ nops' = nops + 1
    /\ UNCHANGED <<ctxs, owner, filters>>
    /\ UNCHANGED buildVars

LoadResultInverted(res) ==
    IF res = 0 THEN Err(Format("failed to load filter into the kernel", <<>>)) ELSE Ok

\* Context::load: the check of seccomp_load's return value
LoadResult(res) ==
    IF res # 0 THEN Err(Format("failed to load filter into the kernel", <<>>)) ELSE Ok

LoadReleasesOnFailure(c, res) ==
    /\ nops < MaxOps
    /\ owner[c] = "live"
    /\ LET h == ctxs[c].int
           result == LoadResult(res)
           call == [fn |-> "seccomp_load", handle |-> h, ret |-> res]
           cleanup == [fn |-> "seccomp_release", handle |-> h]
       IN /\ filters' = FacLoad(filters, fac, h, res)
          /\ fac' = IF result.ok THEN Touch(fac, h) ELSE FacRelease(Touch(fac, h), h)
          /\ obs' = IF result.ok THEN [obs EXCEPT ![c].loadok = TRUE]
                                 ELSE [obs EXCEPT ![c].loadfail = TRUE]
          /\ last' = [op |-> "load", ctx |-> c, res |-> result,
                      calls |-> IF result.ok THEN <<call>> ELSE <<call, cleanup>>,
                      loaded_before |-> obs[c].loadok, arg |-> NoArg]
    /\ nops' = nops + 1
    /\ UNCHANGED <<ctxs, owner>>
    /\ UNCHANGED buildVars

Load(c, res) ==
    /\ nops < MaxOps
    /\ owner[c] = "live"
    /\ LET h == ctxs[c].int
           result == LoadResult(res)
           call == [fn |-> "seccomp_load", handle |-> h, ret |-> res]
       IN /\ filters' = FacLoad(filters, fac, h, res)
          /\ fac' = Touch(fac, h)
          /\ obs' = IF result.ok THEN [obs EXCEPT ![c].loadok = TRUE]
                                 ELSE [obs EXCEPT ![c].loadfail = TRUE]
          /\ last' = [op |-> "load", ctx |-> c, res |-> result, calls |-> <<call>>,
                      loaded_before |-> obs[c].loadok, arg |-> NoArg]
    /\ nops' = nops + 1
    /\ UNCHANGED <<ctxs, owner>>
    /\ UNCHANGED buildVars

DropWithoutRelease(c) ==
    /\ nops < MaxOps
    /\ owner[c] = "live"
    /\ owner' = [owner EXCEPT ![c] = "dropped"]
    /\ last' = [op |-> "drop", ctx |-> c, res |-> Ok, calls |-> <<>>,
                loaded_before |-> obs[c].loadok, arg |-> NoArg]
    /\ nops' = nops + 1
    /\ UNCHANGED <<ctxs, obs, fac, filters>>
    /\ UNCHANGED buildVars

\* impl Drop for Context: runs once, when the program gives up the Context
Drop(c) ==
    /\ nops < MaxOps
    /\ owner[c] = "live"
    /\ LET h == ctxs[c].int
       IN /\ fac' = FacRelease(fac, h)
          /\ last' = [op |-> "drop", ctx |-> c, res |-> Ok,
                      calls |-> <<[fn |-> "seccomp_release", handle |-> h]>>,
                      loaded_before |-> obs[c].loadok, arg |-> NoArg]
    /\ owner' = [owner EXCEPT ![c] = "dropped"]
    /\ nops' = nops + 1
    /\ UNCHANGED <<ctxs, obs, filters>>
    /\ UNCHANGED buildVars

-----------------------------------------------------------------------------
(* The rules a program hands to add_rule: Rule::new on a built comparison, *)
(* then add_comparison for each further one.                               *)

CmpSeqInputs ==
    { <<Supplied(0, Some("Eq"), Some(1000), None)>>,
      <<Supplied(0, Some("MaskedEq"), Some(255), None)>>,
      <<Supplied(0, Some("Eq"), Some(1000), None),
        Supplied(1, Some("MaskedEq"), Some(15), Some(255))>> }

\* every syscall number with the scenario's comparison and action, and setuid
\* with every action and every comparison sequence
RuleInputs ==
    [nr : SyscallNrs, action : {Errno(EPERM)},
     cmps : {<<Supplied(0, Some("Eq"), Some(1000), None)>>}]
    \cup [nr : {Usize(0, 0, 0, 105)}, action : RuleActions, cmps : CmpSeqInputs]

RECURSIVE AddComparisons(_, _, _)
AddComparisons(r, gs, i) ==
    IF i > Len(gs) THEN r
    ELSE AddComparisons(AddComparison(r, Build(Draft(gs[i])).val), gs, i + 1)

MakeRule(ri) ==
    AddComparisons(RuleNew(ri.nr, Build(Draft(ri.cmps[1])).val, ri.action), ri.cmps, 2)

Next ==
    \/ \E d \in DefActions, ret \in {NULL, Len(fac) + 1} : ContextDefault(d, ret)
    \/ \E c \in 1..Len(ctxs), ri \in RuleInputs, res \in FacRets : AddRule(c, MakeRule(ri), res)
    \/ \E c \in 1..Len(ctxs), res \in FacRets : Load(c, res)
    \/ \E c \in 1..Len(ctxs) : Drop(c)

Spec == Init /\ [][Next]_vars

-----------------------------------------------------------------------------
(* The kernel's evaluation of an activated policy, as a stand-in: the      *)
(* action of the first rule whose syscall number and comparisons all       *)
(* match, else the default action.                                         *)

RECURSIVE BitAnd(_, _)
BitAnd(x, y) ==
    IF x = 0 \/ y = 0 THEN 0
    ELSE (x % 2) * (y % 2) + 2 * BitAnd(x \div 2, y \div 2)

\* does the comparison hold of the argument vector (argument 0 first)
CmpHolds(cmp, args) ==
    LET v == args[cmp.arg + 1]
    IN CASE cmp.op = "SCMP_CMP_NE" -> v # cmp.datum_a
         [] cmp.op = "SCMP_CMP_LT" -> v < cmp.datum_a
         [] cmp.op = "SCMP_CMP_LE" -> v <= cmp.datum_a
         [] cmp.op = "SCMP_CMP_EQ" -> v = cmp.datum_a
         [] cmp.op = "SCMP_CMP_GE" -> v >= cmp.datum_a
         [] cmp.op = "SCMP_CMP_GT" -> v > cmp.datum_a
         [] cmp.op = "SCMP_CMP_MASKED_EQ" -> BitAnd(v, cmp.datum_b) = cmp.datum_a

EvalPolicy(p, nr, args) ==
    LET hits == {i \in 1..Len(p.rules) :
                    /\ p.rules[i].syscall = nr
                    /\ \A j \in 1..Len(p.rules[i].cmps) : CmpHolds(p.rules[i].cmps[j], args)}
    IN IF hits = {} THEN p.def
       ELSE p.rules[CHOOSE i \in hits : \A k \in hits : i <= k].action

\* the system calls a process makes: setuid (105) and exit (60) on x86_64
InvokeNrs == {105, 60}
InvokeArgs == {<<x, y>> : x \in {0, 255, 1000}, y \in {0, 15, 255}}

-----------------------------------------------------------------------------
(* Properties. *)

Ctxs == 1..Len(ctxs)

\* C1: the handle of every Context that Context::default produced is released
\* exactly once over the Context's lifetime: not at all while the Context is live,
\* once when it has been dropped, whatever add_rule and load calls were made; and no
\* two Contexts hold the same handle.
C1_ReleasedExactlyOnce ==
    /\ \A c \in Ctxs :
          /\ ctxs[c].int \in 1..Len(fac)
          /\ fac[ctxs[c].int].released = (IF owner[c] = "dropped" THEN 1 ELSE 0)
    /\ \A c, d \in Ctxs : ctxs[c].int = ctxs[d].int => c = d

C1_Witness ==
    \E c \in Ctxs :
        /\ owner[c] = "dropped"
        /\ Len(obs[c].added) = 1
        /\ obs[c].loadfail
        /\ fac[ctxs[c].int].released = 1

\* C2: the rules a Context's filter object holds are exactly the rules whose add_rule
\* returned success, in that order and as add_rule forwarded them; a failing add_rule
\* leaves the Context live and its handle unreleased; and the policy a successful load
\* activates is those rules with the default action given at create.
C2_AcceptedRulesOnly ==
    \A c \in Ctxs :
        LET h == ctxs[c].int
            want == [i \in 1..Len(obs[c].added) |->
                        [action |-> ActionInto(obs[c].added[i].action),
                         syscall |-> UsizeAsI32(obs[c].added[i].syscall_nr),
                         cmps |-> obs[c].added[i].comparators]]
        IN /\ fac[h].rules = want
           /\ fac[h].def = ActionInto(obs[c].def)
           /\ (last.op = "add_rule" /\ last.ctx = c /\ ~last.res.ok)
                 => owner[c] = "live" /\ fac[h].released = 0
           /\ (last.op = "load" /\ last.ctx = c /\ last.res.ok)
                 => [handle |-> h, def |-> ActionInto(obs[c].def), rules |-> want] \in filters

C2_Witness ==
    \E c \in Ctxs :
        /\ last.op = "load" /\ last.ctx = c /\ last.res.ok
        /\ Len(obs[c].added) = 1
        /\ obs[c].rejected = 1
        /\ \E p \in filters : p.handle = ctxs[c].int /\ Len(p.rules) = 1

C3_FailedLoadState ==
    /\ \A c \in Ctxs :
          (last.op = "load" /\ last.ctx = c /\ ~last.res.ok)
              => /\ owner[c] = "live"
                 /\ fac[ctxs[c].int].released = 0
    /\ \A c \in Ctxs :
          (obs[c].loadfail /\ last.ctx = c /\ last.op \in {"add_rule", "load"})
              => /\ Len(last.calls) = 1
                 /\ last.calls[1].handle = ctxs[c].int
                 /\ fac[ctxs[c].int].late = 0

C3_FailedLoadStep ==
    (nops' = nops + 1 /\ last'.op = "load" /\ ~last'.res.ok) => filters' = filters

\* C3: a load that returns failure leaves the set of activated policies as it was and
\* the Context live with its handle unreleased, and every later add_rule or load on
\* that Context is one facility call on that still unreleased handle.
C3_FailedLoadKeepsContext == [](C3_FailedLoadState) /\ [][C3_FailedLoadStep]_vars

C3_Witness ==
    \E c \in Ctxs :
        /\ obs[c].loadfail
        /\ last.op = "add_rule" /\ last.ctx = c /\ last.res.ok
        /\ Len(fac[ctxs[c].int].rules) = 1

C4_Filtered ==
    \A c \in Ctxs : obs[c].loadok => \E p \in filters : p.handle = ctxs[c].int

\* C4: once a load has returned success the process is filtered (the Context's policy
\* is among the activated ones) in that and every later state, and no step of
\* add_rule, load, drop or create takes an activated policy away.
C4_LoadIsIrreversible == [](C4_Filtered) /\ [][filters \subseteq filters']_vars

C4_Witness ==
    /\ Len(ctxs) = 2
    /\ obs[1].loadok
    /\ owner[1] = "dropped"
    /\ last.op = "default" /\ last.res.ok
    /\ filters # {}

\* C5: build yields a Comparison exactly when an operator and a primary datum have
\* both been supplied to the builder, whatever using / with / and calls were made; the
\* Comparison it yields has all four fields filled (argument index, operator code and
\* primary datum as supplied), and otherwise it yields None.  No other field is
\* consulted: a masked-equal operator without a secondary datum builds.
C5_BuildIffOpAndDatum ==
    built.done =>
        /\ built.val.some <=> (built.from.op.some /\ built.from.a.some)
        /\ built.val.some =>
              /\ DOMAIN built.val.val = {"arg", "op", "datum_a", "datum_b"}
              /\ built.val.val.arg = built.from.arg.val
              /\ built.val.val.op = OpInto(built.from.op.val)
              /\ built.val.val.datum_a = built.from.a.val
              /\ built.val.val.datum_b \in Nat
        /\ ~built.val.some => built.val = None

C5_Witness ==
    /\ built.done
    /\ built.from.op.some
    /\ built.from.b.some
    /\ ~built.from.a.some
    /\ ~built.val.some

\* C6: a Comparison built without and(..) has secondary datum 0 and the argument index,
\* operator and primary datum that were supplied, and add_rule hands it to the facility
\* with secondary datum 0 (so does the rule the facility then holds).
C6_SecondaryDatumDefaultsToZero ==
    last.op = "add_rule" =>
        \A ri \in RuleInputs :
            MakeRule(ri) = last.arg =>
                \A i \in 1..Len(ri.cmps) :
                    ~ri.cmps[i].b.some =>
                        LET cmp == last.arg.comparators[i]
                            sent == last.calls[1].arg_array[i]
                            h == ctxs[last.ctx].int
                        IN /\ cmp.datum_b = 0
                           /\ cmp.arg = ri.cmps[i].arg.val
                           /\ cmp.op = OpInto(ri.cmps[i].op.val)
                           /\ cmp.datum_a = ri.cmps[i].a.val
                           /\ sent.datum_b = 0
                           /\ last.res.ok =>
                                 fac[h].rules[Len(fac[h].rules)].cmps[i].datum_b = 0

C6_Witness ==
    /\ last.op = "add_rule"
    /\ last.res.ok
    /\ last.calls[1].arg_array[1].op = "SCMP_CMP_MASKED_EQ"
    /\ last.calls[1].arg_array[1].datum_a = 255
    /\ last.calls[1].arg_array[1].datum_b = 0

C7_SequenceIsWhatWasAppended ==
    /\ rule.held <=> appended # <<>>
    /\ rule.held =>
          /\ rule.val.comparators = appended
          /\ Len(rule.val.comparators) >= 1

C7_NeverShrinks ==
    /\ rule.held => rule'.held
    /\ (rule.held /\ Len(appended') > 1) =>
          /\ Len(rule'.val.comparators) >= Len(rule.val.comparators)
          /\ SubSeq(rule'.val.comparators, 1, Len(rule.val.comparators)) = rule.val.comparators

\* C7: a Rule's comparison sequence is the comparison given to Rule::new followed by
\* the comparisons given to add_comparison, in the order of the calls (length N + 1
\* after N calls); it is never empty, and an add_comparison step keeps the earlier
\* comparisons in place.
C7_RuleComparisonsGrowInOrder == [](C7_SequenceIsWhatWasAppended) /\ [][C7_NeverShrinks]_vars

C7_Witness ==
    /\ rule.held
    /\ Len(rule.val.comparators) = 3
    /\ rule.val.comparators[1] # rule.val.comparators[2]
    /\ rule.val.comparators[2] # rule.val.comparators[3]

\* C8: after create with default action D, one successful add_rule of a rule
\* {syscall s, comparisons C, action A} and a successful load (the only activated
\* policy), an invocation of syscall s whose arguments satisfy every comparison of C
\* receives A's action code and every other invocation receives D's.
C8_PolicyEffect ==
    \A c \in Ctxs :
        (/\ last.op = "load" /\ last.ctx = c /\ last.res.ok
         /\ Len(obs[c].added) = 1
         /\ Cardinality(filters) = 1)
        => LET r == obs[c].added[1]
               p == CHOOSE q \in filters : TRUE
           IN \A nr \in InvokeNrs, args \in InvokeArgs :
                 EvalPolicy(p, nr, args) =
                     IF /\ UsizeEquals(r.syscall_nr, nr)
                        /\ \A i \in 1..Len(r.comparators) : CmpHolds(r.comparators[i], args)
                     THEN ActionInto(r.action)
                     ELSE ActionInto(obs[c].def)

\* C9: create, add_rule and load each make exactly one facility call and return
\* failure exactly when that call signalled failure: a null handle from seccomp_init,
\* a nonzero return from seccomp_rule_add_array or seccomp_load.
C9_SingleAttemptFaithful ==
    /\ last.op = "default" =>
          /\ Len(last.calls) = 1
          /\ last.calls[1].fn = "seccomp_init"
          /\ ~last.res.ok <=> last.calls[1].ret = NULL
    /\ last.op = "add_rule" =>
          /\ Len(last.calls) = 1
          /\ last.calls[1].fn = "seccomp_rule_add_array"
          /\ ~last.res.ok <=> last.calls[1].ret # 0
    /\ last.op = "load" =>
          /\ Len(last.calls) = 1
          /\ last.calls[1].fn = "seccomp_load"
          /\ ~last.res.ok <=> last.calls[1].ret # 0

C9_Witness ==
    /\ last.op = "add_rule"
    /\ last.calls[1].ret = 1
    /\ ~last.res.ok

\* C10 as stated: after a load on a Context has returned success, a later add_rule or
\* load on that Context returns an error.
C10_CheckedFailureAfterLoad ==
    (last.op \in {"add_rule", "load"} /\ last.loaded_before) => ~last.res.ok

\* C10, amended: after a load on a Context has returned success, a later add_rule or
\* load on that Context is forwarded to the facility as one call on the Context's
\* handle, and returns an error exactly when that call returns nonzero.
C10_ForwardedAfterLoad ==
    (last.op \in {"add_rule", "load"} /\ last.loaded_before) =>
        /\ Len(last.calls) = 1
        /\ last.calls[1].handle = ctxs[last.ctx].int
        /\ last.res.ok <=> last.calls[1].ret = 0

C10_Witness ==
    /\ last.op = "add_rule"
    /\ last.loaded_before
    /\ last.res.ok
    /\ Len(fac[ctxs[last.ctx].int].rules) = 1

\* C11: each add_rule is one seccomp_rule_add_array call on the Context's own handle
\* that carries the rule's action code, the rule's syscall number, a count equal to
\* the length of the rule's comparison sequence, and the comparisons in the rule's
\* order with every field unchanged.
C11_ForwardedAsOneCall ==
    last.op = "add_rule" =>
        /\ Len(last.calls) = 1
        /\ last.calls[1].fn = "seccomp_rule_add_array"
        /\ last.calls[1].handle = ctxs[last.ctx].int
        /\ last.calls[1].action = ActionInto(last.arg.action)
        /\ UsizeEquals(last.arg.syscall_nr, last.calls[1].syscall)
        /\ last.calls[1].arg_cnt = Len(last.arg.comparators)
        /\ Len(last.calls[1].arg_array) = Len(last.arg.comparators)
        /\ \A i \in 1..Len(last.arg.comparators) :
              /\ last.calls[1].arg_array[i].arg = last.arg.comparators[i].arg
              /\ last.calls[1].arg_array[i].op = last.arg.comparators[i].op
              /\ last.calls[1].arg_array[i].datum_a = last.arg.comparators[i].datum_a
              /\ last.calls[1].arg_array[i].datum_b = last.arg.comparators[i].datum_b

\* C12: the message of a failure names the operation that failed (the text of a
\* create, an add_rule and a load failure differ from one another), and the message
\* of an add_rule failure holds the rejected rule's syscall number, action and
\* comparisons.
C12_MessagesIdentifyFailure ==
    (last.op \in {"default", "add_rule", "load"} /\ ~last.res.ok) =>
        LET failed(S) == {x.msg.text : x \in {y \in S : ~y.ok}}
            initTexts == failed({DefaultResult(NULL)})
            loadTexts == failed({LoadResult(res) : res \in FacRets})
            addTexts == failed({AddRuleResult(MakeRule(ri), res) :
                                   ri \in RuleInputs, res \in FacRets})
            m == last.res.msg
            has(name, val) ==
                \E i \in 1..Len(m.args) :
                    \E j \in 1..Len(m.args[i].fields) :
                        /\ m.args[i].fields[j].name = name
                        /\ m.args[i].fields[j].val = val
        IN /\ last.op = "default" => m.text \notin addTexts \cup loadTexts
           /\ last.op = "load" => m.text \notin addTexts \cup initTexts
           /\ last.op = "add_rule" =>
                 /\ m.text \notin initTexts \cup loadTexts
                 /\ has("syscall_nr", last.arg.syscall_nr)
                 /\ has("action", last.arg.action)
                 /\ has("comparators", last.arg.comparators)

C12_Witness ==
    /\ last.op = "add_rule"
    /\ ~last.res.ok
    /\ Len(last.arg.comparators) = 2
    /\ last.res.msg.args[1].fields[3].val = last.arg.comparators

\* C13: the syscall number add_rule hands to the facility is non-negative and
\* numerically equal to the Rule's syscall number, for every syscall number a Rule
\* can hold.
C13_SyscallNumberPreserved ==
    last.op = "add_rule" =>
        /\ last.calls[1].syscall >= 0
        /\ UsizeEquals(last.arg.syscall_nr, last.calls[1].syscall)

\* C14: no facility call reaches a handle after that handle has been released: the
\* release is the last call made on it, whatever create, add_rule, load and drop
\* steps were taken.
C14_NoUseAfterRelease ==
    /\ \A h \in 1..Len(fac) : fac[h].late = 0
    /\ \A c \in Ctxs :
          (last.op \in {"add_rule", "load", "drop"} /\ last.ctx = c) =>
              \A i \in 1..Len(last.calls) :
                  /\ last.calls[i].handle = ctxs[c].int
                  /\ last.calls[i].fn # "seccomp_release" => fac[ctxs[c].int].released = 0

C14_Witness ==
    \E c \in Ctxs :
        /\ last.op = "drop" /\ last.ctx = c
        /\ obs[c].loadok
        /\ Len(fac[ctxs[c].int].rules) = 1
        /\ fac[ctxs[c].int].released = 1
        /\ fac[ctxs[c].int].late = 0

RECURSIVE Releases(_, _)
Releases(f, h) == IF h = 0 THEN 0 ELSE f[h].released + Releases(f, h - 1)

\* C15: a create whose seccomp_init returned null yields no Context and makes no
\* release call; every Context holds a non-null handle that a successful init
\* returned, release is only called on such a handle, and the number of releases
\* never exceeds the number of successful inits.
C15_NoReleaseWithoutInit ==
    /\ (last.op = "default" /\ ~last.res.ok) =>
          /\ last.ctx = 0
          /\ \A i \in 1..Len(last.calls) : last.calls[i].fn # "seccomp_release"
    /\ (last.op = "default" /\ last.calls[1].ret = NULL) => last.ctx = 0
    /\ Len(ctxs) = Len(fac)
    /\ \A c \in Ctxs : ctxs[c].int # NULL /\ ctxs[c].int \in 1..Len(fac)
    /\ last.op = "drop" =>
          \A i \in 1..Len(last.calls) :
              last.calls[i].handle # NULL /\ last.calls[i].handle \in 1..Len(fac)
    /\ Releases(fac, Len(fac)) <= Len(fac)

C15_Witness ==
    /\ last.op = "default"
    /\ ~last.res.ok
    /\ Len(ctxs) = 1
    /\ owner[1] = "dropped"
    /\ Releases(fac, Len(fac)) = 1

\* C16: each setter of the builder overwrites its own field only: the builder's
\* fields are the argument index and the last value given to using, with and and,
\* and build yields what the chain arg(i).using(o).with(a).and(b) of those last
\* values yields, in whatever order and however often the setters were called.
C16_SettersIndependent ==
    /\ compare.held =>
          compare.val = [arg |-> given.arg.val, op |-> given.op,
                         datum_a |-> given.a, datum_b |-> given.b]
    /\ built.done => built.val = Build(Draft(built.from))

C16_Witness ==
    /\ built.done
    /\ built.val.some
    /\ built.from.setter = "using"
    /\ built.from.b.some
    /\ built.val.val.datum_b # built.val.val.datum_a

====
